---- MODULE Spec2Model ----
(***************************************************************************)
(* Commercial flight profile (Commerical_Flight_Profile.py) and the        *)
(* parameter-sweep plot helper (plotting.py) of gpkit-models.              *)
(*                                                                         *)
(* The flight-profile script is modelled statement by statement: the       *)
(* module-level index lists, the variable vectors, the four constraint     *)
(* groups and their link.  A constraint is a record naming the line that   *)
(* emits it and the slots it refers to; an assignment "satisfies" the      *)
(* model when every emitted constraint holds of it.                        *)
(***************************************************************************)
EXTENDS Integers, Sequences, FiniteSets, TLC

VARIABLES
    Nclimb1, Nclimb2, Ncruise2,          \* the three segment counts the script sets
    pc,                                  \* the statement the script is about to run
    failedAt,                            \* the statement that raised, "none" otherwise
    defined,                             \* index-list names bound in the module namespace
    iclimb1, iclimb2, icruise2, izbre,   \* the index lists (Python lists, 0-based values)
    vectors,                             \* vector variable name -> its length
    constraints,                         \* the constraints emitted so far
    sol,                                 \* the (partial) assignment the solver is building
    subs, subs0,                         \* model.substitutions, and its value at the call
    xvarname, zvarname, xsweep, zsweep,  \* the arguments of poor_mans_contour
    x_old, z_old,                        \* its saved substitutions
    zi,                                  \* how many values of zsweep the loop has consumed
    nlines,                              \* len(lines)
    cpc                                  \* where poor_mans_contour is

profileVars == <<Nclimb1, Nclimb2, Ncruise2, pc, failedAt, defined,
                 iclimb1, iclimb2, icruise2, izbre, vectors, constraints, sol>>
contourVars == <<subs, subs0, xvarname, zvarname, xsweep, zsweep,
                 x_old, z_old, zi, nlines, cpc>>
vars == <<profileVars, contourVars>>

----------------------------------------------------------------------------
(* Bounds of the model *)

MaxCount == 3
MaxCountW == 2
MaxCountH == 2
MaxW == 2
MaxRng == 3
MaxReq == 2
MaxSweep == 2

----------------------------------------------------------------------------
(* Segment counts the script fixes at zero, and its altitude constants *)

Ntakeoff == 0
Ntrans == 0
Ncruise1 == 0
Ncruiseclimb == 0
Ndecent == 0
Nlanding == 0
Nresclimb == 0
Nresdecent == 0
Nreslanding == 0
Nreshold == 0

alt10k == 10000
startAlt == 1500
cruiseAlt == 35000

Nclimb == Nclimb1 + Nclimb2 + Ncruiseclimb
Ncruise == Ncruise1 + Ncruise2
Nres == Nresclimb + Nresdecent + Nreslanding + Nreshold
Nseg == Nclimb + Ncruise + Nres + Ntakeoff + Ntrans + Ndecent + Nlanding

----------------------------------------------------------------------------
(* Python and numpy primitives the script uses *)

\* int(): truncation toward zero of the rational a / b, b > 0
TruncDiv(a, b) == IF a >= 0 THEN a \div b ELSE -((-a) \div b)

\* map(int, np.linspace(start, stop, num)) for num >= 0: num evenly spaced
\* samples from start to stop, both included, each truncated to an integer
IntLinspace(start, stop, num) ==
    IF num = 1 THEN <<start>>
    ELSE [k \in 1..num |->
             TruncDiv(start * (num - 1) + (k - 1) * (stop - start), num - 1)]

\* The outcomes of map(int, np.linspace(start, stop, num)).  numpy documents
\* num as non-negative; for a negative num numpy >= 1.10 raises ValueError and
\* older releases return an empty array.
LinspaceOutcomes(start, stop, num) ==
    IF num >= 0
    THEN {[ok |-> TRUE, val |-> IntLinspace(start, stop, num)]}
    ELSE {[ok |-> FALSE, val |-> <<>>], [ok |-> TRUE, val |-> <<>>]}

\* seq[idx] of Python: a negative idx counts from the end, anything outside
\* -len .. len-1 raises IndexError
InRange(len, idx) == -len <= idx /\ idx < len
Norm(len, idx) == IF idx < 0 THEN idx + len ELSE idx
PyGet(list, idx) == list[Norm(Len(list), idx) + 1]
AllInRange(len, list) == \A k \in 1..Len(list) : InRange(len, list[k])

Elems(list) == {list[k] : k \in 1..Len(list)}
PyMin(list) == CHOOSE m \in Elems(list) : \A e \in Elems(list) : m <= e
PyMax(list) == CHOOSE m \in Elems(list) : \A e \in Elems(list) : m >= e

----------------------------------------------------------------------------
(* Constraints *)

Con(grp, kind, i, j, num, den) ==
    [grp |-> grp, kind |-> kind, i |-> i, j |-> j, num |-> num, den |-> den]

VectorNames == {"hft", "dhft", "V", "W_start", "W_end", "W_fuel",
                "RngClimb", "RngCruise", "z_bre"}

\* VectorVariable(n, ...) of each vector the constraints index
VectorLength(v) ==
    CASE v \in {"dhft", "RngClimb"} -> Nclimb
      [] v = "RngCruise" -> Ncruise2 + Ncruise1
      [] OTHER -> Nseg

NoVectors == [v \in {} |-> 0]
VLen(v) == vectors[v]

EmptySol == [Wtotal |-> 0, We |-> 0, Wpayload |-> 0,
             Wstart |-> <<>>, Wend |-> <<>>, Wfuel |-> <<>>,
             hft |-> <<>>, Rng |-> <<>>, Req |-> 0]

----------------------------------------------------------------------------
(* Substitution values of the plot helper *)

Names == {"a", "b", "c"}
Vals == {1, 2}
Scalar(n) == [tag |-> "scalar", v |-> <<n>>]
Sweep(s) == [tag |-> "sweep", v |-> s]
Absent == [tag |-> "absent", v |-> <<>>]

ContourIdle ==
    /\ subs = [n \in Names |-> Absent]
    /\ subs0 = [n \in Names |-> Absent]
    /\ xvarname = "a" /\ zvarname = "a"
    /\ xsweep = <<>> /\ zsweep = <<>>
    /\ x_old = Absent /\ z_old = Absent
    /\ zi = 0 /\ nlines = 0
    /\ cpc = "idle"

----------------------------------------------------------------------------
(* The flight-profile script: module level *)

InitProfile(Counts) ==
    /\ Nclimb1 \in Counts /\ Nclimb2 \in Counts /\ Ncruise2 \in Counts
    /\ pc = "iclimb1"
    /\ failedAt = "none"
    /\ defined = {}
    /\ iclimb1 = <<>> /\ iclimb2 = <<>> /\ icruise2 = <<>> /\ izbre = <<>>
    /\ vectors = NoVectors
    /\ constraints = {}
    /\ sol = EmptySol
    /\ ContourIdle

\* An exception nobody catches: the script ends and its namespace is gone
Raise(step) ==
    /\ pc' = "error"
    /\ failedAt' = step
    /\ defined' = {}
    /\ iclimb1' = <<>> /\ iclimb2' = <<>> /\ icruise2' = <<>> /\ izbre' = <<>>
    /\ vectors' = NoVectors
    /\ constraints' = {}
    /\ sol' = EmptySol
    /\ UNCHANGED <<Nclimb1, Nclimb2, Ncruise2>>

\* iclimb1 = map(int, np.linspace(0, Nclimb1 - 1, Nclimb1))
BuildIclimb1 ==
    /\ pc = "iclimb1"
    /\ \E o \in LinspaceOutcomes(0, Nclimb1 - 1, Nclimb1) :
         IF o.ok
         THEN /\ iclimb1' = o.val
              /\ defined' = defined \cup {"iclimb1"}
              /\ pc' = "iclimb2"
              /\ UNCHANGED <<Nclimb1, Nclimb2, Ncruise2, failedAt, iclimb2,
                             icruise2, izbre, vectors, constraints, sol>>
         ELSE Raise("iclimb1")
    /\ UNCHANGED contourVars

\* iclimb2 = map(int, np.linspace(iclimb1[len(iclimb1)-1] + 1,
\*                                Nclimb2 + iclimb1[len(iclimb1)-1], Nclimb2))
BuildIclimb2 ==
    /\ pc = "iclimb2"
    /\ IF ~InRange(Len(iclimb1), Len(iclimb1) - 1)
       THEN Raise("iclimb2")
       ELSE LET last == PyGet(iclimb1, Len(iclimb1) - 1) IN
            \E o \in LinspaceOutcomes(last + 1, Nclimb2 + last, Nclimb2) :
              IF o.ok
              THEN /\ iclimb2' = o.val
                   /\ defined' = defined \cup {"iclimb2"}
                   /\ pc' = "icruise2"
                   /\ UNCHANGED <<Nclimb1, Nclimb2, Ncruise2, failedAt, iclimb1,
                                  icruise2, izbre, vectors, constraints, sol>>
              ELSE Raise("iclimb2")
    /\ UNCHANGED contourVars

\* icruise2 = map(int, np.linspace(iclimb2[len(iclimb2)-1] + 1,
\*                                 Ncruise2 + iclimb2[len(iclimb2)-1], Ncruise2))
BuildIcruise2 ==
    /\ pc = "icruise2"
    /\ IF ~InRange(Len(iclimb2), Len(iclimb2) - 1)
       THEN Raise("icruise2")
       ELSE LET last == PyGet(iclimb2, Len(iclimb2) - 1) IN
            \E o \in LinspaceOutcomes(last + 1, Ncruise2 + last, Ncruise2) :
              IF o.ok
              THEN /\ icruise2' = o.val
                   /\ defined' = defined \cup {"icruise2"}
                   /\ pc' = "izbre"
                   /\ UNCHANGED <<Nclimb1, Nclimb2, Ncruise2, failedAt, iclimb1,
                                  iclimb2, izbre, vectors, constraints, sol>>
              ELSE Raise("icruise2")
    /\ UNCHANGED contourVars

\* izbre = map(int, np.linspace(0, Ncruise2 - 1, Ncruise2))
BuildIzbre ==
    /\ pc = "izbre"
    /\ \E o \in LinspaceOutcomes(0, Ncruise2 - 1, Ncruise2) :
         IF o.ok
         THEN /\ izbre' = o.val
              /\ defined' = defined \cup {"izbre"}
              /\ pc' = "registry"
              /\ UNCHANGED <<Nclimb1, Nclimb2, Ncruise2, failedAt, iclimb1,
                             iclimb2, icruise2, vectors, constraints, sol>>
         ELSE Raise("izbre")
    /\ UNCHANGED contourVars

\* The VectorVariable declarations.  A negative length is refused by numpy
\* ("negative dimensions are not allowed"); whether the library accepts a
\* length of zero is not decided by this repository, so both outcomes occur.
DeclareVectors ==
    /\ pc = "registry"
    /\ \A v \in VectorNames : VectorLength(v) >= 0
    /\ vectors' = [v \in VectorNames |-> VectorLength(v)]
    /\ pc' = "cmc"
    /\ UNCHANGED <<Nclimb1, Nclimb2, Ncruise2, failedAt, defined, iclimb1,
                   iclimb2, icruise2, izbre, constraints, sol>>
    /\ UNCHANGED contourVars

DeclareVectorsFails ==
    /\ pc = "registry"
    /\ \E v \in VectorNames : VectorLength(v) <= 0
    /\ Raise("registry")
    /\ UNCHANGED contourVars

----------------------------------------------------------------------------
(* CommericalMissionConstraints.__init__ *)

\* the list passed to the first constraints.extend
MissionFixed ==
    {Con("cmc", "WtotalSum", 0, 0, 0, 0),
     Con("cmc", "Wstart0", Norm(VLen("W_start"), 0), 0, 0, 0),
     Con("cmc", "WendFloor", Norm(VLen("W_end"), Nseg - 1), 0, 0, 0),
     Con("cmc", "FuelTotal", 0, 0, 0, 0),
     Con("cmc", "RangeClose", 0, 0, 0, 0),
     Con("cmc", "CruiseCap", 0, 0, 0, 0)}

\* hft[Ntakeoff + Nclimb1 - 1] == alt10k
AltAnchor_OffByOne ==
    {Con("cmc", "AltFix", Norm(VLen("hft"), Ntakeoff + Nclimb1), 0, alt10k, 0)}

AltAnchor ==
    {Con("cmc", "AltFix", Norm(VLen("hft"), Ntakeoff + Nclimb1 - 1), 0, alt10k, 0)}

\* hft[icruise2] == hft[Nclimb-1], one equality per element of icruise2
AltMatching ==
    {Con("cmc", "AltMatch", Norm(VLen("hft"), icruise2[k]),
         Norm(VLen("hft"), Nclimb - 1), 0, 0) : k \in 1..Len(icruise2)}

\* for i in range(1, Nseg): W_start[i] == W_end[i-1]
WeightContinuity_FromTwo ==
    {Con("cmc", "WCont", i, Norm(VLen("W_end"), i - 1), 0, 0) : i \in 2..(Nseg - 1)}

WeightContinuity ==
    {Con("cmc", "WCont", i, Norm(VLen("W_end"), i - 1), 0, 0) : i \in 1..(Nseg - 1)}

\* for i in range(0, Nseg): W_start[i] >= W_end[i] + W_fuel[i]
WeightBalance_SkipLast ==
    {Con("cmc", "WBal", i, i, 0, 0) : i \in 0..(Nseg - 2)}

WeightBalance ==
    {Con("cmc", "WBal", i, i, 0, 0) : i \in 0..(Nseg - 1)}

\* every subscript the constructor evaluates is inside its vector
MissionIndexOK ==
    /\ InRange(VLen("W_start"), 0)
    /\ InRange(VLen("W_end"), Nseg - 1)
    /\ InRange(VLen("hft"), Ntakeoff + Nclimb1 - 1)
    /\ AllInRange(VLen("hft"), icruise2)
    /\ InRange(VLen("hft"), Nclimb - 1)
    /\ \A i \in 1..(Nseg - 1) :
         InRange(VLen("W_start"), i) /\ InRange(VLen("W_end"), i - 1)
    /\ \A i \in 0..(Nseg - 1) :
         /\ InRange(VLen("W_start"), i)
         /\ InRange(VLen("W_end"), i)
         /\ InRange(VLen("W_fuel"), i)

MissionConstraints ==
    /\ pc = "cmc"
    /\ IF MissionIndexOK
       THEN /\ constraints' = constraints \cup MissionFixed \cup AltAnchor
                                \cup AltMatching \cup WeightContinuity
                                \cup WeightBalance
            /\ pc' = "climb1"
            /\ UNCHANGED <<Nclimb1, Nclimb2, Ncruise2, failedAt, defined, iclimb1,
                           iclimb2, icruise2, izbre, vectors, sol>>
       ELSE Raise("cmc")
    /\ UNCHANGED contourVars

----------------------------------------------------------------------------
(* Climb1.__init__, Climb2.__init__ *)

\* V[iclimb] <= limit, V[iclimb] >= Vstall
SpeedLimits(grp, list, limit) ==
    {Con(grp, "Vmax", Norm(VLen("V"), list[k]), 0, limit, 0) : k \in 1..Len(list)}
    \cup {Con(grp, "Vmin", Norm(VLen("V"), list[k]), 0, 120, 0) : k \in 1..Len(list)}

\* for i in range(0, Nclimb): hft[0] <= 1500 ft + dhft[0], hft[i] <= hft[i-1] + dhft[i]
AltitudeChain ==
    {IF i = 0
     THEN Con("climb1", "AltChain0", 0, 0, startAlt, 0)
     ELSE Con("climb1", "AltChain", Norm(VLen("hft"), i), Norm(VLen("hft"), i - 1), 0, 0)
       : i \in 0..(Nclimb - 1)}

ClimbIndexOK(list) ==
    /\ AllInRange(VLen("V"), list)
    /\ AllInRange(VLen("W_start"), list)
    /\ AllInRange(VLen("dhft"), list)
    /\ AllInRange(VLen("RngClimb"), list)

Climb1Constraints ==
    /\ pc = "climb1"
    /\ IF /\ ClimbIndexOK(iclimb1)
          /\ \A i \in 0..(Nclimb - 1) :
               /\ InRange(VLen("hft"), i)
               /\ InRange(VLen("dhft"), i)
               /\ i > 0 => InRange(VLen("hft"), i - 1)
       THEN /\ constraints' = constraints \cup SpeedLimits("climb1", iclimb1, 250)
                                \cup AltitudeChain
            /\ pc' = "climb2"
            /\ UNCHANGED <<Nclimb1, Nclimb2, Ncruise2, failedAt, defined, iclimb1,
                           iclimb2, icruise2, izbre, vectors, sol>>
       ELSE Raise("climb1")
    /\ UNCHANGED contourVars

Climb2Constraints ==
    /\ pc = "climb2"
    /\ IF ClimbIndexOK(iclimb2)
       THEN /\ constraints' = constraints \cup SpeedLimits("climb2", iclimb2, 500)
            /\ pc' = "cruise2"
            /\ UNCHANGED <<Nclimb1, Nclimb2, Ncruise2, failedAt, defined, iclimb1,
                           iclimb2, icruise2, izbre, vectors, sol>>
       ELSE Raise("climb2")
    /\ UNCHANGED contourVars

----------------------------------------------------------------------------
(* Cruise2.__init__ *)

\* hft[icruise2] == 35000 ft
CruiseAltitude ==
    {Con("cruise2", "AltFix", Norm(VLen("hft"), icruise2[k]), 0, cruiseAlt, 0)
       : k \in 1..Len(icruise2)}

\* for i in range(min(izbre), max(izbre)+1):
\*     RngCruise[i] >= (i+1) * ReqRngCruise/Nseg
RangeStaging_PerCruise ==
    {Con("cruise2", "RngStage", i, 0, i + 1, Ncruise2) : i \in PyMin(izbre)..PyMax(izbre)}

RangeStaging_SkipFirst ==
    {Con("cruise2", "RngStage", i, 0, i + 1, Nseg)
       : i \in (PyMin(izbre) + 1)..PyMax(izbre)}

RangeStaging ==
    {Con("cruise2", "RngStage", i, 0, i + 1, Nseg) : i \in PyMin(izbre)..PyMax(izbre)}

\* min() and max() of an empty list raise ValueError
CruiseIndexOK ==
    /\ AllInRange(VLen("hft"), icruise2)
    /\ AllInRange(VLen("W_fuel"), icruise2)
    /\ AllInRange(VLen("W_end"), icruise2)
    /\ AllInRange(VLen("V"), icruise2)
    /\ AllInRange(VLen("z_bre"), izbre)
    /\ AllInRange(VLen("RngCruise"), izbre)
    /\ Len(izbre) > 0
    /\ \A i \in PyMin(izbre)..PyMax(izbre) : InRange(VLen("RngCruise"), i)
    /\ AllInRange(VLen("V"), iclimb2)
    /\ AllInRange(VLen("V"), iclimb1)

Cruise2Constraints ==
    /\ pc = "cruise2"
    /\ IF CruiseIndexOK
       THEN /\ constraints' = constraints \cup CruiseAltitude \cup RangeStaging
            /\ pc' = "link"
            /\ UNCHANGED <<Nclimb1, Nclimb2, Ncruise2, failedAt, defined, iclimb1,
                           iclimb2, icruise2, izbre, vectors, sol>>
       ELSE Raise("cruise2")
    /\ UNCHANGED contourVars

\* CommercialAircraft.__init__: LinkedConstraintSet([cmc, climb1, climb2, c2]);
\* the shared variables make the linked set the union of the four groups
LinkModel ==
    /\ pc = "link"
    /\ pc' = "built"
    /\ UNCHANGED <<Nclimb1, Nclimb2, Ncruise2, failedAt, defined, iclimb1,
                   iclimb2, icruise2, izbre, vectors, constraints, sol>>
    /\ UNCHANGED contourVars

Construct ==
    \/ BuildIclimb1
    \/ BuildIclimb2
    \/ BuildIcruise2
    \/ BuildIzbre
    \/ DeclareVectors
    \/ DeclareVectorsFails
    \/ MissionConstraints
    \/ Climb1Constraints
    \/ Climb2Constraints
    \/ Cruise2Constraints
    \/ LinkModel

Init == InitProfile((-1)..MaxCount)
Next == Construct
Spec == Init /\ [][Next]_vars

----------------------------------------------------------------------------
(* m.localsolve(...): the solver returns an assignment satisfying the        *)
(* constraints it is given.  The assignment is built slot by slot, and a    *)
(* branch is dropped as soon as an emitted constraint whose variables are   *)
(* all assigned fails, so the assignments reached are exactly those (within *)
(* the value bounds) that satisfy every emitted constraint of the kinds the *)
(* branch looks at.                                                         *)

RECURSIVE SumSeq(_)
SumSeq(s) == IF s = <<>> THEN 0 ELSE Head(s) + SumSeq(Tail(s))

Prefix(s, n) == SubSeq(s, 1, n)

\* The weight constraints of the mission-wide group, read as relations
WeightKinds == {"Wstart0", "WCont", "WBal", "WendFloor"}

WeightDecided(c, k, final) ==
    CASE c.kind = "Wstart0" -> c.i < k
      [] c.kind = "WCont" -> c.i < k /\ c.j < k
      [] c.kind = "WBal" -> c.i < k
      [] c.kind = "WendFloor" -> final
      [] OTHER -> FALSE

WeightHolds(c, s) ==
    CASE c.kind = "Wstart0" -> s.Wstart[c.i + 1] = s.Wtotal
      [] c.kind = "WCont" -> s.Wstart[c.i + 1] = s.Wend[c.j + 1]
      [] c.kind = "WBal" -> s.Wstart[c.i + 1] >= s.Wend[c.i + 1] + s.Wfuel[c.i + 1]
      [] c.kind = "WendFloor" -> s.We + s.Wpayload <= s.Wend[c.i + 1]
      [] OTHER -> TRUE

WeightsOK(s, final) ==
    \A c \in constraints :
        (c.kind \in WeightKinds /\ WeightDecided(c, Len(s.Wstart), final))
            => WeightHolds(c, s)

SolveWeightsBegin ==
    /\ pc = "built"
    /\ \E w \in 0..MaxW : sol' = [EmptySol EXCEPT !.Wtotal = w]
    /\ pc' = "solveW"
    /\ UNCHANGED <<Nclimb1, Nclimb2, Ncruise2, failedAt, defined, iclimb1,
                   iclimb2, icruise2, izbre, vectors, constraints>>
    /\ UNCHANGED contourVars

SolveWeightsSlot ==
    /\ pc = "solveW"
    /\ Len(sol.Wstart) < VLen("W_start")
    /\ \E ws \in 0..MaxW, we \in 0..MaxW, wf \in 0..MaxW :
         LET s == [sol EXCEPT !.Wstart = Append(@, ws),
                              !.Wend = Append(@, we),
                              !.Wfuel = Append(@, wf)]
         IN  WeightsOK(s, FALSE) /\ sol' = s
    /\ UNCHANGED <<Nclimb1, Nclimb2, Ncruise2, pc, failedAt, defined, iclimb1,
                   iclimb2, icruise2, izbre, vectors, constraints>>
    /\ UNCHANGED contourVars

SolveWeightsEnd ==
    /\ pc = "solveW"
    /\ Len(sol.Wstart) = VLen("W_start")
    /\ \E e \in 0..MaxW, p \in 0..MaxW :
         LET s == [sol EXCEPT !.We = e, !.Wpayload = p]
         IN  WeightsOK(s, TRUE) /\ sol' = s
    /\ pc' = "solvedW"
    /\ UNCHANGED <<Nclimb1, Nclimb2, Ncruise2, failedAt, defined, iclimb1,
                   iclimb2, icruise2, izbre, vectors, constraints>>
    /\ UNCHANGED contourVars

\* The altitude constraints of the linked model, read as relations.  dhft is
\* not part of the assignment: a chain constraint holds when some dhft does.
AltValues == {startAlt, alt10k, cruiseAlt}
AltSteps == {0, alt10k - startAlt, cruiseAlt - alt10k}
AltKinds == {"AltFix", "AltMatch", "AltChain0", "AltChain"}

AltDecided(c, k) ==
    CASE c.kind \in {"AltFix", "AltChain0"} -> c.i < k
      [] c.kind \in {"AltMatch", "AltChain"} -> c.i < k /\ c.j < k
      [] OTHER -> FALSE

AltHolds(c, h) ==
    CASE c.kind = "AltFix" -> h[c.i + 1] = c.num
      [] c.kind = "AltMatch" -> h[c.i + 1] = h[c.j + 1]
      [] c.kind = "AltChain0" -> \E d \in AltSteps : h[c.i + 1] <= c.num + d
      [] c.kind = "AltChain" -> \E d \in AltSteps : h[c.i + 1] <= h[c.j + 1] + d
      [] OTHER -> TRUE

AltOK(h) ==
    \A c \in constraints :
        (c.kind \in AltKinds /\ AltDecided(c, Len(h))) => AltHolds(c, h)

SolveAltBegin ==
    /\ pc = "built"
    /\ sol' = EmptySol
    /\ pc' = "solveH"
    /\ UNCHANGED <<Nclimb1, Nclimb2, Ncruise2, failedAt, defined, iclimb1,
                   iclimb2, icruise2, izbre, vectors, constraints>>
    /\ UNCHANGED contourVars

SolveAltSlot ==
    /\ pc = "solveH"
    /\ Len(sol.hft) < VLen("hft")
    /\ \E a \in AltValues :
         LET h == Append(sol.hft, a)
         IN  AltOK(h) /\ sol' = [sol EXCEPT !.hft = h]
    /\ UNCHANGED <<Nclimb1, Nclimb2, Ncruise2, pc, failedAt, defined, iclimb1,
                   iclimb2, icruise2, izbre, vectors, constraints>>
    /\ UNCHANGED contourVars

SolveAltEnd ==
    /\ pc = "solveH"
    /\ Len(sol.hft) = VLen("hft")
    /\ pc' = "solvedH"
    /\ UNCHANGED <<Nclimb1, Nclimb2, Ncruise2, failedAt, defined, iclimb1,
                   iclimb2, icruise2, izbre, vectors, constraints, sol>>
    /\ UNCHANGED contourVars

\* The cruise range constraints, read as relations between RngCruise = rng / D
\* (a common denominator D > 0) and ReqRngCruise = req:
\*   RngCruise[i] >= (i+1) * ReqRngCruise / Nseg,  ReqRngCruise >= sum(RngCruise)
RangeHolds(c, rng, req, D) ==
    CASE c.kind = "RngStage" -> rng[c.i + 1] * c.den >= c.num * req * D
      [] c.kind = "CruiseCap" -> req * D >= SumSeq(rng)
      [] OTHER -> TRUE

StagingOK(rng, req, D) ==
    \A c \in constraints :
        (c.grp = "cruise2" /\ c.kind = "RngStage" /\ c.i < Len(rng))
            => RangeHolds(c, rng, req, D)

SolveRangeBegin ==
    /\ pc = "built"
    /\ \E r \in 1..MaxReq : sol' = [EmptySol EXCEPT !.Req = r]
    /\ pc' = "solveR"
    /\ UNCHANGED <<Nclimb1, Nclimb2, Ncruise2, failedAt, defined, iclimb1,
                   iclimb2, icruise2, izbre, vectors, constraints>>
    /\ UNCHANGED contourVars

SolveRangeSlot ==
    /\ pc = "solveR"
    /\ Len(sol.Rng) < VLen("RngCruise")
    /\ \E q \in 0..MaxRng :
         LET rng == Append(sol.Rng, q)
         IN  StagingOK(rng, sol.Req, 1) /\ sol' = [sol EXCEPT !.Rng = rng]
    /\ UNCHANGED <<Nclimb1, Nclimb2, Ncruise2, pc, failedAt, defined, iclimb1,
                   iclimb2, icruise2, izbre, vectors, constraints>>
    /\ UNCHANGED contourVars

SolveRangeEnd ==
    /\ pc = "solveR"
    /\ Len(sol.Rng) = VLen("RngCruise")
    /\ pc' = "solvedR"
    /\ UNCHANGED <<Nclimb1, Nclimb2, Ncruise2, failedAt, defined, iclimb1,
                   iclimb2, icruise2, izbre, vectors, constraints, sol>>
    /\ UNCHANGED contourVars

\* Whether the staged constraints and the cap ReqRngCruise >= sum(RngCruise)
\* have a common solution, RngCruise ranging over the multiples of 1/D from 0 to
\* req (no RngCruise above req satisfies the cap).  prefix holds the numerators
\* chosen so far; a prefix that already breaks a constraint is not extended.
RECURSIVE RangeSatFrom(_, _, _)
RangeSatFrom(prefix, req, D) ==
    LET n == VLen("RngCruise")
        caps == {c \in constraints : c.kind = "CruiseCap"}
    IN  IF Len(prefix) = n
        THEN \A c \in constraints : RangeHolds(c, prefix, req, D)
        ELSE \E q \in 0..(req * D) :
               LET rng == Append(prefix, q)
               IN  /\ \A c \in constraints :
                        (c.kind = "RngStage" /\ c.i = Len(prefix))
                            => RangeHolds(c, rng, req, D)
                   /\ \A c \in caps : RangeHolds(c, rng, req, D)
                   /\ RangeSatFrom(rng, req, D)

RangeSatisfiable(req) == RangeSatFrom(<<>>, req, Nseg)

InitWeights == InitProfile((-1)..MaxCountW)
NextWeights == Construct \/ SolveWeightsBegin \/ SolveWeightsSlot \/ SolveWeightsEnd
SpecWeights == InitWeights /\ [][NextWeights]_vars

InitAlt == InitProfile((-1)..MaxCountH)
NextAlt == Construct \/ SolveAltBegin \/ SolveAltSlot \/ SolveAltEnd
SpecAlt == InitAlt /\ [][NextAlt]_vars

InitRange == InitProfile((-1)..MaxCount)
NextRange == Construct \/ SolveRangeBegin \/ SolveRangeSlot \/ SolveRangeEnd
SpecRange == InitRange /\ [][NextRange]_vars

----------------------------------------------------------------------------
(* poor_mans_contour(model, xvarname, xsweep, zvarname, zsweep, ...)         *)

SeqsUpTo(S, n) == UNION {[1..k -> S] : k \in 0..n}
XSweeps == {<<1>>, <<1, 2>>, <<2, 1>>}
SubValues == {Absent, Sweep(<<1, 2>>)} \cup {Scalar(v) : v \in Vals}

\* the flight-profile script is not running
ProfileIdle ==
    /\ Nclimb1 = 3 /\ Nclimb2 = 3 /\ Ncruise2 = 3
    /\ pc = "idle"
    /\ failedAt = "none"
    /\ defined = {}
    /\ iclimb1 = <<>> /\ iclimb2 = <<>> /\ icruise2 = <<>> /\ izbre = <<>>
    /\ vectors = NoVectors
    /\ constraints = {}
    /\ sol = EmptySol

InitContour ==
    /\ ProfileIdle
    /\ subs \in [Names -> SubValues]
    /\ subs0 = subs
    /\ xvarname \in Names /\ zvarname \in Names
    /\ xsweep \in XSweeps
    /\ zsweep \in SeqsUpTo(Vals, MaxSweep)
    /\ x_old = Absent /\ z_old = Absent
    /\ zi = 0 /\ nlines = 0
    /\ cpc = "call"

\* model.substitutions.update({key: value})
Update(s, key, value) == [s EXCEPT ![key] = value]

\* x_old = model.substitutions[xvarname]; z_old = model.substitutions[zvarname]
\* model.substitutions.update({xvarname: ("sweep", xsweep)})
\* A key that is not in the mapping raises KeyError.
PmcEnter ==
    /\ cpc = "call"
    /\ IF subs[xvarname] = Absent \/ subs[zvarname] = Absent
       THEN /\ cpc' = "raised"
            /\ UNCHANGED <<subs, x_old, z_old>>
       ELSE /\ x_old' = subs[xvarname]
            /\ z_old' = subs[zvarname]
            /\ subs' = Update(subs, xvarname, Sweep(xsweep))
            /\ cpc' = "loop"
    /\ UNCHANGED <<subs0, xvarname, zvarname, xsweep, zsweep, zi, nlines>>
    /\ UNCHANGED profileVars

\* one pass of "for val in zsweep" in which model.solve returns
PmcIterate ==
    /\ cpc = "loop"
    /\ zi < Len(zsweep)
    /\ subs' = Update(subs, zvarname, Scalar(zsweep[zi + 1]))
    /\ nlines' = nlines + 1
    /\ zi' = zi + 1
    /\ UNCHANGED <<subs0, xvarname, zvarname, xsweep, zsweep, x_old, z_old, cpc>>
    /\ UNCHANGED profileVars

\* one pass in which model.solve raises: nothing in the function catches it
PmcSolveRaises ==
    /\ cpc = "loop"
    /\ zi < Len(zsweep)
    /\ subs' = Update(subs, zvarname, Scalar(zsweep[zi + 1]))
    /\ cpc' = "raised"
    /\ UNCHANGED <<subs0, xvarname, zvarname, xsweep, zsweep, x_old, z_old,
                   zi, nlines>>
    /\ UNCHANGED profileVars

\* model.substitutions.update({xvarname: x_old})
\* model.substitutions.update({zvarname: z_old})
RestoreSubs_OnlyX(s, x, xo, z, zo) == Update(s, x, xo)

RestoreSubs(s, x, xo, z, zo) == Update(Update(s, x, xo), z, zo)

\* after the loop: the two restoring updates, the plot formatting, return
PmcFinish ==
    /\ cpc = "loop"
    /\ zi = Len(zsweep)
    /\ subs' = RestoreSubs(subs, xvarname, x_old, zvarname, z_old)
    /\ cpc' = "returned"
    /\ UNCHANGED <<subs0, xvarname, zvarname, xsweep, zsweep, x_old, z_old,
                   zi, nlines>>
    /\ UNCHANGED profileVars

NextContour == PmcEnter \/ PmcIterate \/ PmcSolveRaises \/ PmcFinish
SpecContour == InitContour /\ [][NextContour]_vars

----------------------------------------------------------------------------
(* Properties *)

IndexSteps == {"iclimb1", "iclimb2", "icruise2", "izbre"}
AllNonNegative == Nclimb1 >= 0 /\ Nclimb2 >= 0 /\ Ncruise2 >= 0
AnyNegative == Nclimb1 < 0 \/ Nclimb2 < 0 \/ Ncruise2 < 0
AllPositive == Nclimb1 >= 1 /\ Nclimb2 >= 1 /\ Ncruise2 >= 1
OneZero ==
    \/ Nclimb1 = 0 /\ Nclimb2 >= 1 /\ Ncruise2 >= 1
    \/ Nclimb1 >= 1 /\ Nclimb2 = 0 /\ Ncruise2 >= 1
    \/ Nclimb1 >= 1 /\ Nclimb2 >= 1 /\ Ncruise2 = 0
IndexBuildEnded == pc = "registry" \/ (pc = "error" /\ failedAt \in IndexSteps)
Ascending(from, n) == [k \in 1..n |-> from + k - 1]
MissionBuilt == \E c \in constraints : c.grp = "cmc"
CruiseBuilt == pc \in {"link", "built", "solveH", "solvedH"}

IndexLayout ==
    /\ {"iclimb1", "iclimb2", "icruise2"} \subseteq defined
    /\ iclimb1 = Ascending(0, Nclimb1)
    /\ iclimb2 = Ascending(Nclimb1, Nclimb2)
    /\ icruise2 = Ascending(Nclimb1 + Nclimb2, Ncruise2)
    /\ Elems(iclimb1) \cap Elems(iclimb2) = {}
    /\ Elems(iclimb1) \cap Elems(icruise2) = {}
    /\ Elems(iclimb2) \cap Elems(icruise2) = {}
    /\ Elems(iclimb1) \cup Elems(iclimb2) \cup Elems(icruise2) = 0..(Nseg - 1)
    /\ Cardinality(Elems(iclimb1) \cup Elems(iclimb2) \cup Elems(icruise2))
         = Nclimb1 + Nclimb2 + Ncruise2

\* C1: for all non-negative segment counts, once the module-level index
\* building has ended, iclimb1, iclimb2 and icruise2 exist, are contiguous
\* ascending runs in the order climb-1, climb-2, cruise-2, are pairwise
\* disjoint and together cover exactly [0, Nseg).
C1_IndexListsPartition ==
    (AllNonNegative /\ IndexBuildEnded) => (pc = "registry" /\ IndexLayout)

\* C2: when one of the counts is zero (the other two positive), that phase's index list
\* is empty, the index lists and the four constraint groups are built, and no
\* emitted constraint names a slot outside the non-empty phases' slots.
C2_ZeroCountBuilds ==
    (OneZero /\ (IndexBuildEnded \/ pc \in {"built", "error"}))
        => /\ pc # "error"
           /\ Nclimb1 = 0 => iclimb1 = <<>>
           /\ Nclimb2 = 0 => iclimb2 = <<>>
           /\ Ncruise2 = 0 => icruise2 = <<>>
           /\ \A c \in constraints :
                c.kind \in {"AltFix", "AltMatch", "Vmax", "Vmin", "WCont", "WBal"}
                    => c.i \in 0..(Nseg - 1)

\* C3: when a count is negative the script never gets past the index-building
\* statements: it is still in them, or one of them has raised, and no vector
\* and no constraint exists.
C3_NegativeCountFails ==
    AnyNegative =>
        /\ pc \in IndexSteps \/ (pc = "error" /\ failedAt \in IndexSteps)
        /\ vectors = NoVectors
        /\ constraints = {}

\* C4: once the mission-wide group is built, the continuity equalities it
\* holds are W_start[i] == W_end[i-1] for exactly the slots 0 < i < Nseg, slot 0
\* is tied to W_total, and every assignment satisfying the weight constraints
\* has W_start[i] = W_end[i-1] for every i > 0.
C4_WeightContinuity ==
    /\ MissionBuilt =>
         /\ {<<c.i, c.j>> : c \in {d \in constraints : d.kind = "WCont"}}
               = {<<i, i - 1>> : i \in 1..(Nseg - 1)}
         /\ {c.i : c \in {d \in constraints : d.kind = "Wstart0"}} = {0}
    /\ pc = "solvedW" =>
         /\ sol.Wstart[1] = sol.Wtotal
         /\ \A i \in 1..(Nseg - 1) : sol.Wstart[i + 1] = sol.Wend[i]

C4_Witness ==
    /\ pc = "solvedW"
    /\ Nclimb1 = 2 /\ Nclimb2 = 2 /\ Ncruise2 = 1
    /\ sol.Wtotal = 2
    /\ sol.Wend[Nseg] = 0

\* C5: when poor_mans_contour returns, every entry of model.substitutions,
\* those of xvarname and zvarname included, equals its value before the call.
C5_RoundTrip == cpc = "returned" => subs = subs0

C5_Witness ==
    /\ cpc = "returned"
    /\ xvarname # zvarname
    /\ Len(zsweep) = 2
    /\ zi = 2
    /\ Scalar(zsweep[2]) # subs0[zvarname]
    /\ Sweep(xsweep) # subs0[xvarname]

\* C6: in every assignment satisfying the Cruise2 group's staged constraints,
\* the cumulative cruise range through segment k is at least
\* (k+1) * ReqRngCruise / Nseg, for every cruise segment k.
C6_CumulativeRange ==
    pc = "solvedR" =>
        \A k \in 0..(Ncruise2 - 1) :
            Nseg * SumSeq(Prefix(sol.Rng, k + 1)) >= (k + 1) * sol.Req

C6_Witness ==
    /\ pc = "solvedR"
    /\ Ncruise2 = 3
    /\ sol.Req = 2
    /\ sol.Rng[1] = 1
    /\ sol.Rng[3] = 1

\* C7: with all three counts at least 1, the slot fixed to 10,000 ft is the
\* last slot of iclimb1, every cruise-2 slot is constrained equal to the last
\* slot of iclimb2 and fixed to 35,000 ft, and in every assignment satisfying
\* the linked altitude constraints the last climb-2 slot is at 35,000 ft and
\* the last climb-1 slot at 10,000 ft.
C7_AltitudeContinuity ==
    (AllPositive /\ CruiseBuilt) =>
        /\ {c.i : c \in {d \in constraints : d.kind = "AltFix" /\ d.num = alt10k}}
              = {PyGet(iclimb1, Len(iclimb1) - 1)}
        /\ {<<c.i, c.j>> : c \in {d \in constraints : d.kind = "AltMatch"}}
              = {<<icruise2[k], PyGet(iclimb2, Len(iclimb2) - 1)>>
                   : k \in 1..Len(icruise2)}
        /\ {c.i : c \in {d \in constraints : d.kind = "AltFix" /\ d.num = cruiseAlt}}
              = Elems(icruise2)
        /\ pc = "solvedH" =>
             /\ sol.hft[PyGet(iclimb2, Len(iclimb2) - 1) + 1] = cruiseAlt
             /\ sol.hft[PyGet(iclimb1, Len(iclimb1) - 1) + 1] = alt10k

C7_Witness ==
    /\ pc = "solvedH"
    /\ Nclimb1 = 2 /\ Nclimb2 = 2 /\ Ncruise2 = 2
    /\ sol.hft[1] = startAlt

\* C8: whenever control leaves poor_mans_contour by an exception, the entries
\* of xvarname and zvarname in model.substitutions equal their values from
\* before the call.
C8_RestoredOnRaise ==
    cpc = "raised" =>
        /\ subs[xvarname] = subs0[xvarname]
        /\ subs[zvarname] = subs0[zvarname]

\* C9: for every positive ReqRngCruise, the staged constraints together with
\* ReqRngCruise >= sum(RngCruise) have a common solution exactly when
\* Ncruise2 * (Ncruise2 + 1) / 2 <= Nseg; with the counts 3, 3, 3 they have one.
C9_StagingSatisfiable ==
    pc = "built" =>
        \A r \in 1..MaxReq :
            /\ RangeSatisfiable(r) <=> (Ncruise2 * (Ncruise2 + 1) <= 2 * Nseg)
            /\ (Nclimb1 = 3 /\ Nclimb2 = 3 /\ Ncruise2 = 3) => RangeSatisfiable(r)

C9_Witness ==
    /\ pc = "built"
    /\ Nclimb1 = 3 /\ Nclimb2 = 3 /\ Ncruise2 = 3
    /\ RangeSatisfiable(1)

\* C10: in every assignment of non-negative weights satisfying the mission-wide
\* weight constraints, the start weights do not increase along the slots and
\* W_total >= W_e + W_payload + the sum of W_fuel over all slots.
C10_FuelTelescopes ==
    pc = "solvedW" =>
        /\ \A i \in 1..(Nseg - 1) : sol.Wstart[i + 1] <= sol.Wstart[i]
        /\ sol.Wtotal >= sol.We + sol.Wpayload + SumSeq(sol.Wfuel)

C10_Witness ==
    /\ pc = "solvedW"
    /\ Nseg >= 4
    /\ SumSeq(sol.Wfuel) = 1
    /\ sol.We + sol.Wpayload = 1
    /\ sol.Wtotal = 2

====
